---- MODULE Spec2Model ----
(***************************************************************************)
(* PyRDF: the lazy operation graph (Node), its pruning (graph_prune /      *)
(* is_prunable), the mapper replay over the pruned graph and the           *)
(* multi-threaded trigger Spark.RunGraphs.                                 *)
(***************************************************************************)
EXTENDS Integers, Sequences, FiniteSets, TLC

\* ------------------------------------------------------------------ bounds
MaxNodes == 4        \* node objects the explored calls may create (heads included)
MaxThreads == 2      \* largest numthreads passed to RunGraphs
MaxProxies == 3      \* longest proxies list passed to RunGraphs

\* Node objects built by test_mapper_with_pruning (the head, n1, the two
\* Filters of n2, n4, the first n5, n6 and the second n5).
TestNodes == 8

Nodes == 0 .. ((IF MaxNodes > TestNodes THEN MaxNodes ELSE TestNodes) - 1)
Threads == 1 .. MaxThreads

\* Python None for Node.value, and for Node.pyroot_node (a handle is the
\* non-empty chain of nodes whose operations produced it).
NoneVal == -1
NoHandle == << >>
\* Merged values an execution may store: one that Python takes for false (a
\* Count of 0) and one it takes for true.
ValueSet == {0, 1}

\* Operation names known to the backend and their category.
Transformations == {"Define", "Filter"}
Actions == {"Count"}
Infos == {"GetColumnNames"}
supported_operations == Transformations \cup Actions \cup Infos
NoOp == "None"
\* Python None where the other values are strings.
NoneStr == "None"

VARIABLES
  nnodes,               \* number of Node objects constructed so far
  head,                 \* Node.get_head()
  operation,            \* Node.operation (name), NoOp for a head
  children,             \* Node.children
  cur_attr,             \* Node._cur_attr
  value,                \* Node.value
  pyroot_node,          \* Node.pyroot_node
  has_user_references,  \* Node.has_user_references
  lastOp,               \* the operation that produced this state
  pruneRuns,            \* graph_prune calls in a row on the head (capped at 2)
  pre_children,         \* Node.children as they were before the last pruning
  prune_ret,            \* what the last head.graph_prune() returned
  detached,             \* nodes the last graph_prune dropped from a children list
  ord_list,             \* nodes whose operation the last mapper call applied, in order
  action_nodes,         \* last get_action_nodes()
  ret_values,           \* values list the last mapper call returned
  q,                    \* RunGraphs: queue.Queue contents
  unfinished_tasks,     \* RunGraphs: Queue.unfinished_tasks
  mainpc,               \* RunGraphs: position of the calling thread
  numthreads,           \* RunGraphs: argument
  nstarted,             \* RunGraphs: worker threads started so far
  wpc,                  \* per worker thread: position in trigger_loop
  wproxy,               \* per worker thread: the proxy taken from the queue
  wnodes,               \* per worker thread: action nodes of the run in flight
  runs,                 \* per head: executions of its graph started by RunGraphs
  failed,               \* runs that raised inside RunGraphs (by proxy)
  passed,               \* the proxies list given to RunGraphs
  handlers,             \* <<node, attr>>: bound _call_handler objects the caller holds
  op_args,              \* Node.operation.args
  op_kwargs,            \* Node.operation.kwargs
  decoded,              \* what the last pickle round trip of a node gave back
  config_npartitions,   \* Spark: config.get('npartitions')
  executor_instances,   \* Spark: conf.get('spark.executor.instances')
  npartitions,          \* Spark: self.npartitions
  backend,              \* Spark: which backend class was constructed
  outcomes,             \* ProcessAndMerge: what spark_mapper does on each range
  pm_result,            \* ProcessAndMerge: what the last call gave its caller
  nentries,             \* ProcessAndMerge: entries of the dataset of the last call
  ranges                \* ProcessAndMerge: what build_ranges() returned

graphVars == << nnodes, head, operation, children, cur_attr, value, pyroot_node,
                has_user_references >>
histVars == << lastOp, pruneRuns, pre_children, prune_ret, detached, ord_list, action_nodes,
               ret_values >>
rgVars == << q, unfinished_tasks, mainpc, numthreads, nstarted, wpc, wproxy,
             wnodes, runs, failed, passed >>
callVars == << handlers, op_args, op_kwargs >>
sparkVars == << config_npartitions, executor_instances, npartitions, backend, outcomes,
               pm_result, nentries, ranges >>
auxVars == << callVars, decoded, sparkVars >>
vars == << graphVars, histVars, rgVars, auxVars >>

\* ------------------------------------------------------------ Operation
is_action(op) == op \in Actions
is_info(op) == op \in Infos

\* Python truth value of Node.value: None and 0 are false.
Truthy(v) == v /= NoneVal /\ v /= 0

\* --------------------------------------------------------------- pruning
is_prunable_NoChildCheck(ch, n) ==
  \/ ~has_user_references[n]
  \/ (operation[n] /= NoOp /\ is_action(operation[n]) /\ Truthy(value[n]))

is_prunable_KeepUnreferenced(ch, n) ==
  /\ ch[n] = << >>
  /\ operation[n] /= NoOp /\ is_action(operation[n]) /\ Truthy(value[n])

\* Node.is_prunable, evaluated on the children lists ch.
is_prunable(ch, n) ==
  /\ ch[n] = << >>
  /\ \/ ~has_user_references[n]
     \/ (operation[n] /= NoOp /\ is_action(operation[n]) /\ Truthy(value[n]))

RECURSIVE graph_prune(_, _), prune_loop(_, _, _, _)

\* The for loop of graph_prune over kids = self.children, from index i on:
\* st.children are the lists as pruned so far, kept the surviving children.
prune_loop(st, kids, i, kept) ==
  IF i > Len(kids)
  THEN [children |-> st.children, detached |-> st.detached, kept |-> kept]
  ELSE LET r == graph_prune(st.children, kids[i])
       IN prune_loop([children |-> r.children,
                      detached |-> st.detached \cup r.detached
                                   \cup (IF r.ret THEN {kids[i]} ELSE {})],
                     kids, i + 1,
                     IF r.ret THEN kept ELSE Append(kept, kids[i]))

graph_prune_StaleChildren(ch, n) ==
  LET r == prune_loop([children |-> ch, detached |-> {}], ch[n], 1, << >>)
      ch2 == [r.children EXCEPT ![n] = r.kept]
  IN [children |-> ch2, ret |-> is_prunable(ch, n), detached |-> r.detached]

\* A graph_prune that stores the surviving children in reverse.
graph_prune_Reversed(ch, n) ==
  LET r == prune_loop([children |-> ch, detached |-> {}], ch[n], 1, << >>)
      ch2 == [r.children EXCEPT
                ![n] = [i \in 1 .. Len(r.kept) |-> r.kept[Len(r.kept) + 1 - i]]]
  IN [children |-> ch2, ret |-> is_prunable(ch2, n), detached |-> r.detached]

\* Node.graph_prune on node n: the new children lists, the returned flag and
\* the nodes dropped from some children list.
graph_prune(ch, n) ==
  LET r == prune_loop([children |-> ch, detached |-> {}], ch[n], 1, << >>)
      ch2 == [r.children EXCEPT ![n] = r.kept]
  IN [children |-> ch2, ret |-> is_prunable(ch2, n), detached |-> r.detached]

\* Nodes reachable from n through the children lists ch (n included).
RECURSIVE Subtree(_, _)
Subtree(ch, n) ==
  {n} \cup UNION {Subtree(ch, ch[n][i]) : i \in 1 .. Len(ch[n])}

\* ---------------------------------------------------------------- mapper
\* The engine handle a replay starts from, for the graph of head h.
E0(h) == << h >>

RECURSIVE mapper(_, _, _), mapper_loop(_, _, _, _)

\* The recursion of the mapper into kids = node_py.children from index i on,
\* every child being applied to parent_node.
mapper_loop(ch, kids, i, parent_node) ==
  IF i > Len(kids) THEN << >>
  ELSE mapper(ch, kids[i], parent_node) \o mapper_loop(ch, kids, i + 1, parent_node)

mapper_PostOrder(ch, n, node_cpp) ==
  LET h == Append(node_cpp, n)
  IN mapper_loop(ch, ch[n], 1, h) \o << [node |-> n, on |-> node_cpp, handle |-> h] >>

\* The mapper on a non-head node n: its operation is applied to node_cpp, the
\* handle of its parent, and then its children are replayed on the result.
\* The result lists the applications made, in the order they were made.
mapper(ch, n, node_cpp) ==
  LET h == Append(node_cpp, n)
  IN << [node |-> n, on |-> node_cpp, handle |-> h] >> \o mapper_loop(ch, ch[n], 1, h)

\* node_py.pyroot_node = pyroot_node for every application made, in order.
RECURSIVE store_handles(_, _, _)
store_handles(pr, visits, i) ==
  IF i > Len(visits) THEN pr
  ELSE store_handles([pr EXCEPT ![visits[i].node] = visits[i].handle], visits, i + 1)

RECURSIVE get_action_nodes(_, _), action_loop(_, _, _)
action_loop(ch, kids, i) ==
  IF i > Len(kids) THEN << >>
  ELSE get_action_nodes(ch, kids[i]) \o action_loop(ch, kids, i + 1)

\* CallableGenerator.get_action_nodes from node n.
get_action_nodes(ch, n) ==
  (IF operation[n] /= NoOp /\ is_action(operation[n]) THEN << n >> ELSE << >>)
  \o action_loop(ch, ch[n], 1)

\* ----------------------------------------------------------------- state
NoChildren == [n \in Nodes |-> << >>]

Heads == {n \in Nodes : n < nnodes /\ operation[n] = NoOp}

\* The created nodes that carry an operation.
NonHeads == {n \in Nodes : n < nnodes /\ operation[n] /= NoOp}

GraphInit(nheads) ==
  /\ nnodes = nheads
  /\ head = [n \in Nodes |-> n]
  /\ operation = [n \in Nodes |-> NoOp]
  /\ children = NoChildren
  /\ cur_attr = [n \in Nodes |-> ""]
  /\ value = [n \in Nodes |-> NoneVal]
  /\ pyroot_node = [n \in Nodes |-> NoHandle]
  /\ has_user_references = [n \in Nodes |-> TRUE]

HistInit ==
  /\ lastOp = "init"
  /\ pruneRuns = 0
  /\ pre_children = NoChildren
  /\ prune_ret = FALSE
  /\ detached = {}
  /\ ord_list = << >>
  /\ action_nodes = << >>
  /\ ret_values = << >>

\* What the operation op leaves behind as its results.
Hist(op, nruns, pre, ret, det, ord, an, rv) ==
  /\ lastOp' = op
  /\ pruneRuns' = nruns
  /\ pre_children' = pre
  /\ prune_ret' = ret
  /\ detached' = det
  /\ ord_list' = ord
  /\ action_nodes' = an
  /\ ret_values' = rv

RGInit ==
  /\ q = << >>
  /\ unfinished_tasks = 0
  /\ mainpc = "idle"
  /\ numthreads = 0
  /\ nstarted = 0
  /\ wpc = [t \in Threads |-> "unborn"]
  /\ wproxy = [t \in Threads |-> 0]
  /\ wnodes = [t \in Threads |-> << >>]
  /\ runs = [n \in Nodes |-> 0]
  /\ failed = {}
  /\ passed = << >>

\* No bound handler is held, every operation was booked without arguments,
\* nothing was pickled and no Spark backend was constructed.
NoArgs == << >>
NoKwargs == << >>
\* ProcessAndMerge has not been called.
NoResult == [status |-> "none", value |-> {}]
AuxInit ==
  /\ handlers = {}
  /\ op_args = [n \in Nodes |-> NoArgs]
  /\ op_kwargs = [n \in Nodes |-> NoKwargs]
  /\ decoded = << >>
  /\ config_npartitions = NoneVal
  /\ executor_instances = NoneStr
  /\ npartitions = NoneVal
  /\ backend = "none"
  /\ outcomes = << >>
  /\ pm_result = NoResult
  /\ nentries = NoneVal
  /\ ranges = << >>

Init == GraphInit(1) /\ HistInit /\ RGInit /\ AuxInit

\* ------------------------------------------------------------ operations
\* A TransformationProxy wraps n: calls on it chain; calls on an ActionProxy
\* go to the computed value instead.
Chainable(n) == operation[n] = NoOp \/ operation[n] \in Transformations

\* The assignment of the merged values vals to the ordered action nodes.
assign_values(nodes, vals) ==
  [n \in Nodes |->
     IF \E i \in 1 .. Len(nodes) : nodes[i] = n
     THEN vals[CHOOSE i \in 1 .. Len(nodes) :
                 nodes[i] = n /\ \A k \in (i + 1) .. Len(nodes) : nodes[k] /= n]
     ELSE value[n]]

\* A _call_handler that puts the new node in front of the children of n.
call_handler_Prepend(n, args, kwargs) ==
  /\ cur_attr'[n] \in supported_operations
  /\ LET newNode == nnodes IN
       /\ nnodes' = nnodes + 1
       /\ head' = [head EXCEPT ![newNode] = head[n]]
       /\ operation' = [operation EXCEPT ![newNode] = cur_attr'[n]]
       /\ op_args' = [op_args EXCEPT ![newNode] = args]
       /\ op_kwargs' = [op_kwargs EXCEPT ![newNode] = kwargs]
       /\ children' = [children EXCEPT ![n] = << newNode >> \o @]
  /\ UNCHANGED << value, pyroot_node, has_user_references >>

\* Node._call_handler(*args, **kwargs) on n once _cur_attr is settled (cur_attr'):
\* the backend checks the name, then a new node with that operation and the
\* head of n goes to the end of n's children.
call_handler(n, args, kwargs) ==
  /\ cur_attr'[n] \in supported_operations
  /\ LET newNode == nnodes IN
       /\ nnodes' = nnodes + 1
       /\ head' = [head EXCEPT ![newNode] = head[n]]
       /\ operation' = [operation EXCEPT ![newNode] = cur_attr'[n]]
       /\ op_args' = [op_args EXCEPT ![newNode] = args]
       /\ op_kwargs' = [op_kwargs EXCEPT ![newNode] = kwargs]
       /\ children' = [children EXCEPT ![n] = Append(@, newNode)]
  /\ UNCHANGED << value, pyroot_node, has_user_references >>

\* n.attr(*args, **kwargs) through a live proxy of n, attr a supported
\* operation: Node.__getattr__ followed at once by Node._call_handler.
CallOpArgs(n, attr, args, kwargs) ==
  /\ n < nnodes /\ nnodes < MaxNodes
  /\ has_user_references[n]
  /\ Chainable(n)
  /\ attr \in supported_operations
  /\ cur_attr' = [cur_attr EXCEPT ![n] = attr]
  /\ call_handler(n, args, kwargs)
  /\ Hist("call", 0, NoChildren, FALSE, {}, << >>, << >>, << >>)
  /\ UNCHANGED << rgVars, handlers, decoded, sparkVars >>

\* n.attr() without arguments, as the tests book their operations.
CallOp(n, attr) == CallOpArgs(n, attr, NoArgs, NoKwargs)

\* The last reference to the proxy of n goes away.
DropProxy(n) ==
  /\ n < nnodes
  /\ has_user_references[n]
  /\ has_user_references' = [has_user_references EXCEPT ![n] = FALSE]
  /\ UNCHANGED << nnodes, head, operation, children, cur_attr, value, pyroot_node >>
  /\ Hist("drop", 0, NoChildren, FALSE, {}, << >>, << >>, << >>)
  /\ UNCHANGED << rgVars, auxVars >>

\* head.graph_prune()
GraphPrune(h) ==
  /\ h \in Heads
  /\ LET r == graph_prune(children, h) IN
       /\ children' = r.children
       /\ Hist("graph_prune", IF pruneRuns < 2 THEN pruneRuns + 1 ELSE 2,
               children, r.ret, r.detached, << >>, << >>, << >>)
  /\ UNCHANGED << nnodes, head, operation, cur_attr, value, pyroot_node,
                  has_user_references >>
  /\ UNCHANGED << rgVars, auxVars >>

\* generator.get_callable(); mapper_func(E0); generator.get_action_nodes()
MapperCall(h) ==
  /\ h \in Heads
  /\ LET r == graph_prune(children, h)
         visits == mapper_loop(r.children, r.children[h], 1, E0(h))
         acts == {i \in 1 .. Len(visits) : is_action(operation[visits[i].node])}
         RECURSIVE vals(_)
         vals(i) == IF i > Len(visits) THEN << >>
                    ELSE (IF i \in acts THEN << visits[i].handle >> ELSE << >>)
                         \o vals(i + 1)
     IN
       /\ children' = r.children
       /\ pyroot_node' = store_handles(pyroot_node, visits, 1)
       /\ Hist("mapper", 0, children, r.ret, r.detached,
               [i \in 1 .. Len(visits) |-> visits[i].node],
               get_action_nodes(r.children, h), vals(1))
  /\ UNCHANGED << nnodes, head, operation, cur_attr, value, has_user_references >>
  /\ UNCHANGED << rgVars, auxVars >>

\* proxy.GetValue() on the ActionProxy of n, outside RunGraphs: the cached
\* value if there is one, else an execution of the whole graph, which prunes,
\* lists the action nodes, maps and reduces (ok or raising) and stores the
\* merged values.
GetValue(n, ok) ==
  /\ n < nnodes
  /\ has_user_references[n]
  /\ operation[n] \in Actions
  /\ mainpc = "idle"
  /\ IF value[n] /= NoneVal
     THEN /\ UNCHANGED << children, value >>
          /\ Hist("cached", 0, NoChildren, FALSE, {}, << >>, << >>, << >>)
     ELSE LET r == graph_prune(children, head[n])
              nodes == get_action_nodes(r.children, head[n])
          IN /\ children' = r.children
             /\ IF ok
                THEN \E vals \in [1 .. Len(nodes) -> ValueSet] :
                       /\ value' = assign_values(nodes, vals)
                       /\ Hist("execute", 0, children, r.ret, r.detached, << >>, nodes, vals)
                ELSE /\ UNCHANGED value
                     /\ Hist("raised", 0, children, r.ret, r.detached, << >>, nodes, << >>)
  /\ UNCHANGED << nnodes, head, operation, cur_attr, pyroot_node, has_user_references >>
  /\ UNCHANGED << rgVars, auxVars >>

\* Operation names the explored calls are drawn from: one per category.
CalledOps == {"Filter", "Count", "GetColumnNames"}

\* Graph building, proxy release, pruning and value retrieval.
Next ==
  \/ \E n \in Nodes, attr \in CalledOps : CallOp(n, attr)
  \/ \E n \in Nodes : DropProxy(n)
  \/ \E h \in Nodes : GraphPrune(h)
  \/ \E n \in Nodes, ok \in BOOLEAN : GetValue(n, ok)

Spec == Init /\ [][Next]_vars

\* ------------------------------------------------- the mapper's test graphs
\* The graph of test_mapper_from_graph: n1 = node.Define() is node 1,
\* n2 = node.Filter().Filter() nodes 2 and 3, n4 = n2.Count() node 4,
\* n5 = n1.Count() node 5, n6 = node.Filter() node 6. With second = TRUE the
\* graph of test_mapper_with_pruning, where n5 = n1.Filter() adds node 7 and
\* lets go of the proxy of node 5. The proxy of node 2 was a temporary.
TestChildren(second) ==
  [n \in Nodes |->
     IF n = 0 THEN << 1, 2, 6 >>
     ELSE IF n = 1 THEN (IF second THEN << 5, 7 >> ELSE << 5 >>)
     ELSE IF n = 2 THEN << 3 >>
     ELSE IF n = 3 THEN << 4 >>
     ELSE << >>]

TestOperation(second) ==
  [n \in Nodes |->
     IF n = 1 THEN "Define"
     ELSE IF n \in {2, 3, 6} \/ (second /\ n = 7) THEN "Filter"
     ELSE IF n \in {4, 5} THEN "Count"
     ELSE NoOp]

TestReferences(second) ==
  [n \in Nodes |-> ~(n = 2 \/ (second /\ n = 5))]

TestGraphInit(second) ==
  /\ nnodes = (IF second THEN TestNodes ELSE TestNodes - 1)
  /\ head = [n \in Nodes |-> IF n < nnodes THEN 0 ELSE n]
  /\ operation = TestOperation(second)
  /\ children = TestChildren(second)
  /\ cur_attr = [n \in Nodes |->
                   IF n \in {0, 2} THEN "Filter"
                   ELSE IF n = 1 THEN (IF second THEN "Filter" ELSE "Count")
                   ELSE IF n = 3 THEN "Count"
                   ELSE ""]
  /\ value = [n \in Nodes |-> NoneVal]
  /\ pyroot_node = [n \in Nodes |-> NoHandle]
  /\ has_user_references = TestReferences(second)

\* The number the mock engine Temp records for an operation.
OpCode(op) == IF op = "Define" THEN 1 ELSE IF op = "Filter" THEN 2 ELSE 3

InitMapper ==
  /\ (GraphInit(1) \/ TestGraphInit(FALSE) \/ TestGraphInit(TRUE))
  /\ HistInit /\ RGInit /\ AuxInit

\* Graph building, proxy release and local replays of the mapper (which prune
\* first), from an empty graph and from the graphs the mapper's tests build.
NextMapper ==
  \/ \E n \in Nodes, attr \in CalledOps : CallOp(n, attr)
  \/ \E n \in Nodes : DropProxy(n)
  \/ \E h \in Nodes : MapperCall(h)

SpecMapper == InitMapper /\ [][NextMapper]_vars

\* Every operation on one graph: building, proxy release, pruning, value
\* retrieval and local replays of the mapper.
NextFull ==
  \/ \E n \in Nodes, attr \in CalledOps : CallOp(n, attr)
  \/ \E n \in Nodes : DropProxy(n)
  \/ \E h \in Nodes : GraphPrune(h)
  \/ \E n \in Nodes, ok \in BOOLEAN : GetValue(n, ok)
  \/ \E h \in Nodes : MapperCall(h)

SpecFull == Init /\ [][NextFull]_vars

\* ------------------------------------------------ attribute lookups
MaxHandlers == 2     \* bound _call_handler objects the caller holds at a time

\* The characters of the names the explored lookups use.
Spell(attr) ==
  CASE attr = "Filter" -> << "F", "i", "l", "t", "e", "r" >>
    [] attr = "Count" -> << "C", "o", "u", "n", "t" >>
    [] attr = "__len__" -> << "_", "_", "l", "e", "n", "_", "_" >>
    [] attr = "__init_subclass__" ->
         << "_", "_", "i", "n", "i", "t", "_", "s", "u", "b", "c", "l", "a", "s", "s",
            "_", "_" >>
    [] attr = "Bogus" -> << "B", "o", "g", "u", "s" >>
    [] OTHER -> << >>

LowerCase ==
  {"a", "b", "c", "d", "e", "f", "g", "h", "i", "j", "k", "l", "m", "n", "o", "p", "q",
   "r", "s", "t", "u", "v", "w", "x", "y", "z"}

\* re.search("^__[a-z]+__$", attr)
IsDunder(attr) ==
  LET w == Spell(attr) IN
    /\ Len(w) >= 5
    /\ w[1] = "_" /\ w[2] = "_"
    /\ w[Len(w) - 1] = "_" /\ w[Len(w)] = "_"
    /\ \A i \in 3 .. (Len(w) - 2) : w[i] \in LowerCase

\* Names looked up on a node: two supported operations, a dunder name, a
\* reserved-style name the pattern does not match, and an unknown name.
AttrNames == {"Filter", "Count", "__len__", "__init_subclass__", "Bogus"}

\* A __getattr__ that hands out the handler without asking the backend.
GetAttr_NoSupportCheck(n, attr) ==
  /\ n < nnodes
  /\ has_user_references[n]
  /\ Chainable(n)
  /\ cur_attr' = [cur_attr EXCEPT ![n] = attr]
  /\ IF IsDunder(attr)
     THEN /\ lastOp' = "AttributeError"
          /\ UNCHANGED handlers
     ELSE /\ Cardinality(handlers \cup {<< n, attr >>}) <= MaxHandlers
          /\ handlers' = handlers \cup {<< n, attr >>}
          /\ lastOp' = "getattr"
  /\ UNCHANGED << nnodes, head, operation, children, value, pyroot_node,
                  has_user_references, op_args, op_kwargs, decoded, sparkVars >>
  /\ UNCHANGED << pruneRuns, pre_children, prune_ret, detached, ord_list, action_nodes,
                  ret_values >>
  /\ UNCHANGED rgVars

\* f = n.attr through a live proxy of n (Node.__getattr__): the name is stored
\* first; a dunder name and a name the backend does not support raise
\* AttributeError, any other lookup gives the bound _call_handler.
GetAttr(n, attr) ==
  /\ n < nnodes
  /\ has_user_references[n]
  /\ Chainable(n)
  /\ cur_attr' = [cur_attr EXCEPT ![n] = attr]
  /\ IF IsDunder(attr) \/ attr \notin supported_operations
     THEN /\ lastOp' = "AttributeError"
          /\ UNCHANGED handlers
     ELSE /\ Cardinality(handlers \cup {<< n, attr >>}) <= MaxHandlers
          /\ handlers' = handlers \cup {<< n, attr >>}
          /\ lastOp' = "getattr"
  /\ UNCHANGED << nnodes, head, operation, children, value, pyroot_node,
                  has_user_references, op_args, op_kwargs, decoded, sparkVars >>
  /\ UNCHANGED << pruneRuns, pre_children, prune_ret, detached, ord_list, action_nodes,
                  ret_values >>
  /\ UNCHANGED rgVars

\* f() for a handler f the caller got from n: Node._call_handler, which reads
\* the name from _cur_attr; current_backend.check_supported raises for a name
\* the backend does not support.
CallHandler(n, attr) ==
  /\ << n, attr >> \in handlers
  /\ UNCHANGED cur_attr
  /\ IF cur_attr[n] \in supported_operations
     THEN /\ nnodes < MaxNodes
          /\ call_handler(n, NoArgs, NoKwargs)
          /\ lastOp' = "call"
     ELSE /\ lastOp' = "unsupported"
          /\ UNCHANGED << nnodes, head, operation, children, value, pyroot_node,
                          has_user_references, op_args, op_kwargs >>
  /\ UNCHANGED << handlers, decoded, sparkVars >>
  /\ UNCHANGED << pruneRuns, pre_children, prune_ret, detached, ord_list, action_nodes,
                  ret_values >>
  /\ UNCHANGED rgVars

\* Lookups of supported and rejected names, and calls of the handlers got.
NextAttr ==
  \/ \E n \in Nodes, attr \in AttrNames : GetAttr(n, attr)
  \/ \E n \in Nodes, attr \in AttrNames : CallHandler(n, attr)

SpecAttr == Init /\ [][NextAttr]_vars

\* ------------------------------------------------- the Spark backend
MaxNpartitions == 5  \* largest configured 'npartitions'
MaxRaising == 2      \* most ranges of one ProcessAndMerge call on which spark_mapper raises
MaxEntries == 7      \* most entries of a dataset

MIN_NPARTITIONS == 2

\* config.get('npartitions'): absent, or a number.
ConfigValues == {NoneVal} \cup (0 .. MaxNpartitions)
\* getConf().get('spark.executor.instances'): absent, or a string.
InstanceValues == {NoneStr, "", "1", "3", "12"}

\* The decimal digits of a string of InstanceValues.
Digits(str) ==
  CASE str = "1" -> << 1 >>
    [] str = "3" -> << 3 >>
    [] str = "12" -> << 1, 2 >>
    [] OTHER -> << >>

RECURSIVE DecimalValue(_)
DecimalValue(d) ==
  IF d = << >> THEN 0
  ELSE 10 * DecimalValue(SubSeq(d, 1, Len(d) - 1)) + d[Len(d)]

\* int(str) for a string of digits.
int(str) == DecimalValue(Digits(str))

\* The truth value Python gives a string or None.
StrTruthy(str) == str /= NoneStr /\ str /= ""

\* A _get_partitions that takes MIN_NPARTITIONS for a floor.
get_partitions_Floor(np, inst) ==
  LET npart == IF Truthy(np) THEN np
               ELSE IF StrTruthy(inst) THEN int(inst)
               ELSE MIN_NPARTITIONS
  IN IF npart < MIN_NPARTITIONS THEN MIN_NPARTITIONS ELSE npart

\* Spark._get_partitions with self.npartitions = np and
\* getConf().get('spark.executor.instances') = inst.
get_partitions(np, inst) ==
  IF Truthy(np) THEN np
  ELSE IF StrTruthy(inst) THEN int(inst)
  ELSE MIN_NPARTITIONS

\* Spark(config) of PyRDF.backend and SparkBackend() of PyRDF.Backends: the
\* base class has stored the configured npartitions, the constructor
\* replaces it with _get_partitions().
SparkInit(class) ==
  /\ backend = "none"
  /\ backend' = class
  /\ npartitions' = get_partitions(config_npartitions, executor_instances)
  /\ UNCHANGED << config_npartitions, executor_instances, outcomes, pm_result,
                  nentries, ranges >>
  /\ UNCHANGED << graphVars, histVars, rgVars, callVars, decoded >>

\* What spark_mapper may do on one range: declare the headers and libraries
\* and return what the mapper returns, or raise in either.
RangeOutcomes == {"returns", "declare_raises", "mapper_raises"}

\* A spark_mapper that swallows an exception and returns an empty list.
spark_mapper_Swallow(i, o) ==
  [raised |-> FALSE, value |-> IF o = "returns" THEN {i} ELSE {}]

\* spark_mapper(current_range) on the i-th range: the partial result of
\* range i is written {i}; nothing catches what the declarations or the
\* mapper raise.
spark_mapper(i, o) ==
  IF o = "returns" THEN [raised |-> FALSE, value |-> {i}]
  ELSE [raised |-> TRUE, value |-> {}]

\* The reducer merges two partial results.
reducer(a, b) == a \cup b

\* RDD.treeReduce(reducer) over the mapped ranges lo .. hi.
RECURSIVE treeReduce(_, _, _)
treeReduce(mapped, lo, hi) ==
  IF lo = hi THEN mapped[lo].value
  ELSE LET mid == (lo + hi) \div 2 IN
         reducer(treeReduce(mapped, lo, mid), treeReduce(mapped, mid + 1, hi))

\* ProcessAndMerge(mapper, reducer) over ranges with the outcomes outs: a
\* task that raises fails the Spark job, and the exception reaches the
\* caller of ProcessAndMerge in place of a result.
ProcessAndMerge(outs) ==
  LET mapped == [i \in 1 .. Len(outs) |-> spark_mapper(i, outs[i])] IN
    IF \E i \in 1 .. Len(outs) : mapped[i].raised
    THEN [status |-> "raised", value |-> {}]
    ELSE [status |-> "returned", value |-> treeReduce(mapped, 1, Len(outs))]

\* The smaller of two numbers.
Min(a, b) == IF a < b THEN a ELSE b

\* Ranges that hand the remainder to the trailing ranges.
build_ranges_Trailing(total, k) ==
  LET size == total \div k
      rem == total % k
      Start(i) == (i - 1) * size + (IF i - 1 > k - rem THEN i - 1 - (k - rem) ELSE 0)
  IN [i \in 1 .. k |-> [start |-> Start(i), end |-> Start(i + 1)]]

\* build_ranges() for a dataset of total entries and k partitions: k ranges
\* (start, end) in order, each of total div k entries, the first total mod k
\* of them of one more.
build_ranges(total, k) ==
  LET size == total \div k
      rem == total % k
      Start(i) == (i - 1) * size + Min(i - 1, rem)
  IN [i \in 1 .. k |-> [start |-> Start(i), end |-> Start(i + 1)]]

\* The outcomes over k ranges in which spark_mapper raises on the ranges of
\* bad, for the cause given by why, and returns on the others.
OutcomesOf(k, bad, why) ==
  [i \in 1 .. k |-> IF i \in bad THEN why[i] ELSE "returns"]

\* backend.ProcessAndMerge(mapper, reducer) for a dataset of total entries:
\* the ranges are built for self.npartitions, mapped and reduced. The call
\* reads nothing that an earlier call wrote, so the first call on a backend
\* stands for every call on it.
ProcessAndMergeCall(total, outs) ==
  /\ backend /= "none"
  /\ nentries = NoneVal
  /\ nentries' = total
  /\ ranges' = build_ranges(total, npartitions)
  /\ Len(outs) = Len(ranges')
  /\ outcomes' = outs
  /\ pm_result' = ProcessAndMerge(outs)
  /\ UNCHANGED << config_npartitions, executor_instances, npartitions, backend >>
  /\ UNCHANGED << graphVars, histVars, rgVars, callVars, decoded >>

\* A call of ProcessAndMerge for a dataset of any size, spark_mapper
\* raising on at most MaxRaising of the ranges.
ProcessAndMergeAny ==
  /\ backend /= "none" /\ nentries = NoneVal
  /\ \E bad \in {b \in SUBSET (1 .. npartitions) : Cardinality(b) <= MaxRaising} :
       \E why \in [bad -> RangeOutcomes \ {"returns"}], total \in 0 .. MaxEntries :
         ProcessAndMergeCall(total, OutcomesOf(npartitions, bad, why))

\* A backend is constructed from any configuration.
InitSpark ==
  /\ GraphInit(1) /\ HistInit /\ RGInit
  /\ handlers = {}
  /\ op_args = [n \in Nodes |-> NoArgs]
  /\ op_kwargs = [n \in Nodes |-> NoKwargs]
  /\ decoded = << >>
  /\ config_npartitions \in ConfigValues
  /\ executor_instances \in InstanceValues
  /\ npartitions = NoneVal
  /\ backend = "none"
  /\ outcomes = << >>
  /\ pm_result = NoResult
  /\ nentries = NoneVal
  /\ ranges = << >>

\* Construction of either Spark backend, then map-reduce calls on it.
NextSpark ==
  \/ \E class \in {"Spark", "SparkBackend"} : SparkInit(class)
  \/ ProcessAndMergeAny

SpecSpark == InitSpark /\ [][NextSpark]_vars

\* -------------------------------------------------------------- pickling
\* Node.operation of a node without operation, in a decoded tree.
NoOperation == [name |-> NoOp, args |-> NoArgs, kwargs |-> NoKwargs]

\* Operation(name, *args, **kwargs)
Operation(name, args, kwargs) == [name |-> name, args |-> args, kwargs |-> kwargs]

\* Node.__getstate__ on node n, pickle encoding the nodes of the children
\* list in turn: the state dictionary of n.
RECURSIVE getstate(_)
getstate(n) ==
  LET state_dict == [children |-> [i \in 1 .. Len(children[n]) |-> getstate(children[n][i])]]
  IN IF operation[n] /= NoOp
     THEN state_dict @@ [operation_name |-> operation[n],
                         operation_args |-> op_args[n],
                         operation_kwargs |-> op_kwargs[n]]
     ELSE state_dict

\* A __setstate__ that looks at the arguments to tell whether there is an
\* operation.
RECURSIVE setstate_ArgsTest(_)
setstate_ArgsTest(state) ==
  [children |-> [i \in 1 .. Len(state.children) |-> setstate_ArgsTest(state.children[i])],
   operation |-> IF "operation_args" \in DOMAIN state /\ state.operation_args /= << >>
                 THEN Operation(state.operation_name, state.operation_args,
                                state.operation_kwargs)
                 ELSE NoOperation]

\* Node.__setstate__ on a state dictionary, pickle decoding the children in
\* turn: the attributes the new node has.
RECURSIVE setstate(_)
setstate(state) ==
  [children |-> [i \in 1 .. Len(state.children) |-> setstate(state.children[i])],
   operation |-> IF "operation_name" \in DOMAIN state /\ StrTruthy(state.operation_name)
                 THEN Operation(state.operation_name, state.operation_args,
                                state.operation_kwargs)
                 ELSE NoOperation]

\* pickle.loads(pickle.dumps(n)) on node n.
Pickle(n) ==
  /\ n < nnodes
  /\ decoded' = << [node |-> n, state |-> getstate(n), tree |-> setstate(getstate(n))] >>
  /\ lastOp' = "pickle"
  /\ UNCHANGED << pruneRuns, pre_children, prune_ret, detached, ord_list, action_nodes,
                  ret_values >>
  /\ UNCHANGED << graphVars, rgVars, callVars, sparkVars >>

\* The arguments the explored calls pass: none, or one positional and one
\* keyword argument.
ArgChoices == {<< NoArgs, NoKwargs >>, << << "x" >>, [name |-> "h"] >>}

\* Graph building with and without arguments, and pickle round trips.
NextPickle ==
  \/ \E n \in Nodes, attr \in CalledOps, a \in ArgChoices : CallOpArgs(n, attr, a[1], a[2])
  \/ \E n \in Nodes : Pickle(n)

SpecPickle == Init /\ [][NextPickle]_vars

\* ------------------------------------------------------------- RunGraphs
\* Two dataframes with their Count actions booked and every proxy held:
\* nodes 0 and 1 are the heads, node 2 is a Count on head 0 and node 3 a
\* Count on head 0 or on head 1.
ForestInit ==
  \E g \in {0, 1} :
    /\ nnodes = 4
    /\ head = [n \in Nodes |-> IF n = 2 THEN 0 ELSE IF n = 3 THEN g ELSE n]
    /\ operation = [n \in Nodes |-> IF n \in {2, 3} THEN "Count" ELSE NoOp]
    /\ children = [n \in Nodes |->
                     IF n = 0 THEN (IF g = 0 THEN << 2, 3 >> ELSE << 2 >>)
                     ELSE IF n = 1 /\ g = 1 THEN << 3 >>
                     ELSE << >>]
    /\ cur_attr = [n \in Nodes |-> IF n = 0 \/ (n = 1 /\ g = 1) THEN "Count" ELSE ""]
    /\ value = [n \in Nodes |-> NoneVal]
    /\ pyroot_node = [n \in Nodes |-> NoHandle]
    /\ has_user_references = [n \in Nodes |-> TRUE]

InitRG == ForestInit /\ HistInit /\ RGInit /\ AuxInit

\* The Action nodes whose proxy the caller holds.
ActionProxies ==
  {n \in NonHeads : is_action(operation[n]) /\ has_user_references[n]}

\* RunGraphs(proxies, numthreads) up to the start of the workers: every proxy
\* is put on a new queue.
RunGraphs(proxies, nt) ==
  /\ mainpc = "idle"
  /\ q' = proxies
  /\ unfinished_tasks' = Len(proxies)
  /\ passed' = proxies
  /\ numthreads' = nt
  /\ nstarted' = 0
  /\ mainpc' = "start"
  /\ UNCHANGED << wpc, wproxy, wnodes, runs, failed >>
  /\ UNCHANGED << graphVars, histVars, auxVars >>

\* A start loop that runs one round too many.
RunGraphsStart_OneMore ==
  /\ mainpc = "start"
  /\ IF nstarted <= numthreads /\ nstarted < MaxThreads
     THEN /\ nstarted' = nstarted + 1
          /\ wpc' = [wpc EXCEPT ![nstarted + 1] = "get"]
          /\ UNCHANGED mainpc
     ELSE /\ mainpc' = "join"
          /\ UNCHANGED << nstarted, wpc >>
  /\ UNCHANGED << q, unfinished_tasks, numthreads, wproxy, wnodes, runs, failed, passed >>
  /\ UNCHANGED << graphVars, histVars, auxVars >>

\* One round of the loop that creates and starts the daemon threads; after
\* the last round the caller is at q.join().
RunGraphsStart ==
  /\ mainpc = "start"
  /\ IF nstarted < numthreads
     THEN /\ nstarted' = nstarted + 1
          /\ wpc' = [wpc EXCEPT ![nstarted + 1] = "get"]
          /\ UNCHANGED mainpc
     ELSE /\ mainpc' = "join"
          /\ UNCHANGED << nstarted, wpc >>
  /\ UNCHANGED << q, unfinished_tasks, numthreads, wproxy, wnodes, runs, failed, passed >>
  /\ UNCHANGED << graphVars, histVars, auxVars >>

RunGraphsJoin_NoWait ==
  /\ mainpc = "join"
  /\ mainpc' = "returned"
  /\ UNCHANGED << q, unfinished_tasks, numthreads, nstarted, wpc, wproxy, wnodes,
                  runs, failed, passed >>
  /\ UNCHANGED << graphVars, histVars, auxVars >>

\* q.join(): returns once every put has been matched by a task_done.
RunGraphsJoin ==
  /\ mainpc = "join"
  /\ unfinished_tasks = 0
  /\ mainpc' = "returned"
  /\ UNCHANGED << q, unfinished_tasks, numthreads, nstarted, wpc, wproxy, wnodes,
                  runs, failed, passed >>
  /\ UNCHANGED << graphVars, histVars, auxVars >>

\* trigger_loop: queue_.get(), blocking while the queue is empty.
WorkerGet(t) ==
  /\ wpc[t] = "get"
  /\ q /= << >>
  /\ wproxy' = [wproxy EXCEPT ![t] = Head(q)]
  /\ q' = Tail(q)
  /\ wpc' = [wpc EXCEPT ![t] = "GetValue"]
  /\ UNCHANGED << unfinished_tasks, mainpc, numthreads, nstarted, wnodes, runs,
                  failed, passed >>
  /\ UNCHANGED << graphVars, histVars, auxVars >>

\* trigger_loop: the GetValue call on the proxy taken. A stored value is
\* returned at once; otherwise an execution of the proxy's graph starts: the
\* graph is pruned, its action nodes are listed and the job is submitted.
WorkerGetValue(t) ==
  /\ wpc[t] = "GetValue"
  /\ IF value[wproxy[t]] /= NoneVal
     THEN /\ wpc' = [wpc EXCEPT ![t] = "task_done"]
          /\ UNCHANGED << children, wnodes, runs >>
     ELSE LET h == head[wproxy[t]]
              r == graph_prune(children, h)
          IN /\ children' = r.children
             /\ wnodes' = [wnodes EXCEPT ![t] = get_action_nodes(r.children, h)]
             /\ runs' = [runs EXCEPT ![h] = @ + 1]
             /\ wpc' = [wpc EXCEPT ![t] = "running"]
  /\ UNCHANGED << q, unfinished_tasks, mainpc, numthreads, nstarted, wproxy,
                  failed, passed >>
  /\ UNCHANGED << nnodes, head, operation, cur_attr, value, pyroot_node,
                  has_user_references >>
  /\ UNCHANGED << histVars, auxVars >>

\* The execution in flight ends well: the merged values are stored on the
\* action nodes listed at its start and GetValue returns.
WorkerRunReturns(t) ==
  /\ wpc[t] = "running"
  /\ \E vals \in [1 .. Len(wnodes[t]) -> ValueSet] :
       value' = assign_values(wnodes[t], vals)
  /\ wpc' = [wpc EXCEPT ![t] = "task_done"]
  /\ wnodes' = [wnodes EXCEPT ![t] = << >>]
  /\ UNCHANGED << q, unfinished_tasks, mainpc, numthreads, nstarted, wproxy, runs,
                  failed, passed >>
  /\ UNCHANGED << nnodes, head, operation, children, cur_attr, pyroot_node,
                  has_user_references >>
  /\ UNCHANGED << histVars, auxVars >>

\* A failure that takes the executions in flight on the other threads with it.
WorkerRunRaises_CancelAll(t) ==
  /\ wpc[t] = "running"
  /\ failed' = failed \cup {wproxy[t]}
  /\ wpc' = [u \in Threads |-> IF wpc[u] = "running" THEN "dead" ELSE wpc[u]]
  /\ wnodes' = [u \in Threads |-> << >>]
  /\ UNCHANGED << q, unfinished_tasks, mainpc, numthreads, nstarted, wproxy, runs,
                  passed >>
  /\ UNCHANGED << graphVars, histVars, auxVars >>

\* The execution in flight raises: the exception leaves GetValue and
\* trigger_loop, which has no handler, and the thread ends.
WorkerRunRaises(t) ==
  /\ wpc[t] = "running"
  /\ failed' = failed \cup {wproxy[t]}
  /\ wpc' = [wpc EXCEPT ![t] = "dead"]
  /\ wnodes' = [wnodes EXCEPT ![t] = << >>]
  /\ UNCHANGED << q, unfinished_tasks, mainpc, numthreads, nstarted, wproxy, runs,
                  passed >>
  /\ UNCHANGED << graphVars, histVars, auxVars >>

\* trigger_loop: queue_.task_done(), then back to the top of the loop.
WorkerTaskDone(t) ==
  /\ wpc[t] = "task_done"
  /\ unfinished_tasks' = unfinished_tasks - 1
  /\ wpc' = [wpc EXCEPT ![t] = "get"]
  /\ UNCHANGED << q, mainpc, numthreads, nstarted, wproxy, wnodes, runs, failed,
                  passed >>
  /\ UNCHANGED << graphVars, histVars, auxVars >>

\* The lists of at most MaxProxies proxies.
ProxyLists == UNION {[1 .. k -> ActionProxies] : k \in 0 .. MaxProxies}

\* A call of RunGraphs with some proxies list and some numthreads >= 1.
RunGraphsCall ==
  \E proxies \in ProxyLists, nt \in 1 .. MaxThreads : RunGraphs(proxies, nt)

Main ==
  \/ RunGraphsCall
  \/ RunGraphsStart
  \/ RunGraphsJoin

Worker(t) ==
  \/ WorkerGet(t)
  \/ WorkerGetValue(t)
  \/ WorkerRunReturns(t)
  \/ WorkerRunRaises(t)
  \/ WorkerTaskDone(t)

NextRG == Main \/ \E t \in Threads : Worker(t)

SpecRG == InitRG /\ [][NextRG]_vars

\* The threads are scheduled fairly: the caller and every worker thread that
\* can take a step eventually takes one.
SpecRGFair ==
  /\ InitRG /\ [][NextRG]_vars
  /\ WF_vars(Main)
  /\ \A t \in Threads : WF_vars(Worker(t))

\* ------------------------------------------------------- pruning claims
\* The operations that ran graph_prune on a head as their last pruning.
PruningOps == {"graph_prune", "mapper", "execute", "raised"}

\* Range of a children list.
Kids(ch, n) == {ch[n][i] : i \in 1 .. Len(ch[n])}

\* C4: graph_prune detaches every childless non-head node whose
\* has_user_references flag is false, of any category and with or without a
\* value, and does so in cascade within the one call: after a pruning no
\* surviving non-head leaf is unreferenced, and every non-head node whose
\* whole subtree was unreferenced before the call has been dropped by it.
C4_UnreferencedLeavesPruned ==
  lastOp \in PruningOps =>
    \A n \in NonHeads :
      /\ (n \in Subtree(children, head[n]) /\ children[n] = << >>)
            => has_user_references[n]
      /\ (/\ n \in Subtree(pre_children, head[n])
          /\ \A m \in Subtree(pre_children, n) : ~has_user_references[m])
            => (n \in detached /\ n \notin Subtree(children, head[n]))

\* C4 witness: one graph_prune call dropped a parent together with its child
\* and an unreferenced Action node whose value had been stored.
C4_Witness ==
  /\ lastOp = "graph_prune"
  /\ \E n \in detached : \E m \in detached : m \in Kids(pre_children, n)
  /\ \E c \in detached :
       /\ is_action(operation[c]) /\ value[c] /= NoneVal
       /\ ~has_user_references[c]

\* C5 (as claimed): graph_prune detaches every childless Action node whose
\* value is already set, whatever value the execution stored, even while its
\* proxy is still held.
C5_ValuedActionsPruned ==
  lastOp = "graph_prune" =>
    \A n \in NonHeads :
      (/\ n \in Subtree(pre_children, head[n])
       /\ pre_children[n] = << >>
       /\ is_action(operation[n])
       /\ value[n] /= NoneVal)
        => n \in detached

\* C7: graph_prune never detaches a node that has a surviving child: a node
\* it reports prunable has an empty children list once its children were
\* pruned, and a node one of whose children survived stays in the tree.
C7_NoParentPruned ==
  lastOp \in PruningOps =>
    /\ \A n \in detached :
         /\ children[n] = << >>
         /\ Kids(pre_children, n) \subseteq detached
    /\ \A n \in NonHeads :
         (/\ n \in Subtree(pre_children, head[n])
          /\ Kids(pre_children, n) \ detached /= {})
           => (n \notin detached /\ n \in Subtree(children, head[n]))
    /\ \A h \in Heads : prune_ret => children[h] = << >>

\* C7 witness: an unreferenced node lost a child to the pruning, kept another
\* and survived.
C7_Witness ==
  /\ lastOp = "graph_prune"
  /\ \E n \in NonHeads :
       /\ ~has_user_references[n]
       /\ n \in Subtree(children, head[n])
       /\ children[n] /= << >>
       /\ Kids(pre_children, n) \cap detached /= {}

\* C8: pruning is idempotent: a second graph_prune on the head, with nothing
\* in between, drops no node and leaves every children list as the first
\* call left it.
C8_PruneIdempotent ==
  pruneRuns = 2 => (children = pre_children /\ detached = {})

\* C8 witness: graph_prune ran twice in a row on a graph that pruning has
\* shrunk and that still has nodes.
C8_Witness ==
  /\ pruneRuns = 2
  /\ \E n \in NonHeads : n \notin Subtree(children, head[n])
  /\ \E n \in NonHeads : n \in Subtree(children, head[n])

\* -------------------------------------------------------- mapper claims
\* C6 (as claimed): graph_prune detaches every childless Info node whose
\* pyroot_node is already set, even while its proxy is still held.
C6_HandledInfosPruned ==
  lastOp = "graph_prune" =>
    \A n \in NonHeads :
      (/\ n \in Subtree(pre_children, head[n])
       /\ pre_children[n] = << >>
       /\ is_info(operation[n])
       /\ pyroot_node[n] /= NoHandle)
        => n \in detached

Pos(seq, n) == CHOOSE i \in 1 .. Len(seq) : seq[i] = n
Parent(ch, n) == CHOOSE p \in Nodes : n \in Kids(ch, p)
IsActionNode(n) == is_action(operation[n])
OpCodes(seq) == [i \in 1 .. Len(seq) |-> OpCode(operation[seq[i]])]

\* C9: one mapper call applies the operation of every surviving non-head node
\* exactly once, to the handle its parent produced (the engine handle for the
\* children of the head), in depth-first pre-order with children in insertion
\* order: the subtree of a node fills the positions right after it and
\* siblings come in list order. The action nodes are the Action nodes in that
\* order and the values list has one value per action node at its index. On
\* the graph of test_mapper_from_graph the order is [1,3,2,2,3,2] and the
\* action nodes are [n5, n4].
C9_MapperPreOrder ==
  lastOp = "mapper" =>
    \A h \in Heads :
      LET T == Subtree(children, h) \ {h} IN
        /\ Len(ord_list) = Cardinality(T)
        /\ {ord_list[i] : i \in 1 .. Len(ord_list)} = T
        /\ \A n \in T :
             /\ pyroot_node[n] =
                  Append(IF Parent(children, n) = h THEN E0(h)
                         ELSE pyroot_node[Parent(children, n)], n)
             /\ {ord_list[i] : i \in Pos(ord_list, n) ..
                    (Pos(ord_list, n) + Cardinality(Subtree(children, n)) - 1)}
                  = Subtree(children, n)
        /\ \A n \in T \cup {h} :
             \A i \in 1 .. Len(children[n]) : \A j \in (i + 1) .. Len(children[n]) :
               Pos(ord_list, children[n][i]) < Pos(ord_list, children[n][j])
        /\ action_nodes = SelectSeq(ord_list, IsActionNode)
        /\ Len(ret_values) = Len(action_nodes)
        /\ \A i \in 1 .. Len(action_nodes) :
             ret_values[i] = pyroot_node[action_nodes[i]]
        /\ (nnodes = TestNodes - 1 /\ children = TestChildren(FALSE)) =>
             /\ OpCodes(ord_list) = << 1, 3, 2, 2, 3, 2 >>
             /\ action_nodes = << 5, 4 >>

\* C9 witness: the mapper has run on the unpruned graph of
\* test_mapper_from_graph.
C9_Witness ==
  /\ lastOp = "mapper"
  /\ nnodes = TestNodes - 1
  /\ children = TestChildren(FALSE)
  /\ Len(ord_list) = 6
  /\ Len(ret_values) = 2

\* A node survives pruning when it or one of its descendants has a live
\* proxy and is not an Action node with a true value.
Survives(n) ==
  \E m \in Subtree(pre_children, n) :
    /\ has_user_references[m]
    /\ ~(is_action(operation[m]) /\ Truthy(value[m]))

\* The nodes in the pre-order of the graph as it was before the pruning.
PreOrderBefore(h) ==
  LET pre == mapper_loop(pre_children, pre_children[h], 1, E0(h))
  IN [i \in 1 .. Len(pre) |-> pre[i].node]

\* C10: a childless node whose proxy was dropped before the mapper was built
\* is pruned before the replay: its operation is not applied, and it is not
\* among the action nodes nor gives a value. The nodes replayed are those of
\* the graph before pruning that keep a referenced descendant or are
\* referenced themselves, in the pre-order they had in that graph. On the
\* graph of test_mapper_with_pruning the order is [1,2,2,2,3,2] and the
\* action nodes are [n4].
C10_DroppedLeafNotReplayed ==
  lastOp = "mapper" =>
    \A h \in Heads :
      /\ \A n \in NonHeads :
           (/\ n \in Subtree(pre_children, h)
            /\ pre_children[n] = << >>
            /\ ~has_user_references[n])
             => /\ \A i \in 1 .. Len(ord_list) : ord_list[i] /= n
                /\ \A i \in 1 .. Len(action_nodes) : action_nodes[i] /= n
                /\ \A i \in 1 .. Len(ret_values) :
                     ret_values[i][Len(ret_values[i])] /= n
      /\ ord_list = SelectSeq(PreOrderBefore(h), Survives)
      /\ action_nodes = SelectSeq(ord_list, IsActionNode)
      /\ Len(ret_values) = Len(action_nodes)
      /\ (/\ nnodes = TestNodes
          /\ pre_children = TestChildren(TRUE)
          /\ has_user_references = TestReferences(TRUE)) =>
             /\ OpCodes(ord_list) = << 1, 2, 2, 2, 3, 2 >>
             /\ action_nodes = << 4 >>

\* C10 witness: the mapper has run on the graph of test_mapper_with_pruning,
\* pruning the Count whose proxy was rebound, replaying the Filter chained
\* after it on the same parent and the unreferenced first Filter of n2.
C10_Witness ==
  /\ lastOp = "mapper"
  /\ nnodes = TestNodes
  /\ pre_children = TestChildren(TRUE)
  /\ has_user_references = TestReferences(TRUE)
  /\ detached = {5}
  /\ children[1] = << 7 >>
  /\ ord_list = << 1, 7, 2, 3, 4, 6 >>

\* ----------------------------------------------------- RunGraphs claims
\* C1 (as claimed): the graph of each head is executed at most once by one
\* RunGraphs call, however many of its Action proxies were passed and however
\* the worker threads interleave.
C1_OneRunPerGraph ==
  \A h \in Heads : runs[h] <= 1

\* C2 (as claimed): when a run triggered for an enqueued proxy raises,
\* RunGraphs does not return as if every run had succeeded, and it does
\* report the failure to its caller in the end.
C2_FailureReported ==
  /\ [](mainpc = "returned" => failed = {})
  /\ (failed /= {}) ~> (mainpc = "raised")

\* C3: RunGraphs returns only once every enqueued trigger has completed: when
\* it has returned, the queue is empty, every put was matched by a task_done
\* and no worker is inside GetValue or between GetValue and task_done.
C3_JoinSemantics ==
  mainpc = "returned" =>
    /\ q = << >>
    /\ unfinished_tasks = 0
    /\ \A t \in Threads : wpc[t] \in {"unborn", "get"}
    /\ \A i \in 1 .. Len(passed) : value[passed[i]] /= NoneVal

\* C3 witness: RunGraphs has returned from a call with two threads and two
\* proxies of different graphs, both of which were executed.
C3_Witness ==
  /\ mainpc = "returned"
  /\ numthreads = 2
  /\ Len(passed) = 2
  /\ head[passed[1]] /= head[passed[2]]
  /\ runs[head[passed[1]]] = 1 /\ runs[head[passed[2]]] = 1

\* ------------------------------------------------------- chain calls
\* C11: a successful call of a supported operation on a node n puts exactly
\* one new node at the end of n's children, childless, carrying the called
\* operation and the head of n; no other children list, no operation, no
\* value and no reference flag of an existing node changes.
C11_CallAppendsOneChild ==
  [][lastOp' = "call" =>
       \E n \in Nodes :
         /\ n < nnodes
         /\ nnodes' = nnodes + 1
         /\ children' = [children EXCEPT ![n] = Append(@, nnodes)]
         /\ children'[nnodes] = << >>
         /\ cur_attr'[n] \in supported_operations
         /\ operation' = [operation EXCEPT ![nnodes] = cur_attr'[n]]
         /\ head' = [head EXCEPT ![nnodes] = head[n]]
         /\ value' = value
         /\ pyroot_node' = pyroot_node
         /\ has_user_references' = has_user_references]_vars

\* A call has just added a second or later child to a node.
C11_Witness ==
  /\ lastOp = "call"
  /\ \E n \in Nodes :
       /\ n < nnodes
       /\ Len(children[n]) >= 2
       /\ children[n][Len(children[n])] = nnodes - 1
       /\ operation[nnodes - 1] = cur_attr[n]
       /\ children[nnodes - 1] = << >>

\* The steps in which a lookup or a call was refused.
RejectedOps == {"AttributeError", "unsupported"}

\* C12: a lookup of a dunder name or of a name the backend does not support
\* raises at chain time, a refused lookup or call adds no node and changes no
\* children list, and every node that is added carries a supported name.
C12_RejectedNeverGrows ==
  [][/\ \A n \in Nodes :
          (cur_attr'[n] /= cur_attr[n]
             /\ (IsDunder(cur_attr'[n]) \/ cur_attr'[n] \notin supported_operations))
            => lastOp' = "AttributeError"
     /\ lastOp' \in RejectedOps =>
          /\ nnodes' = nnodes /\ children' = children
          /\ operation' = operation /\ head' = head
          /\ handlers' = handlers
     /\ nnodes' /= nnodes =>
          /\ operation'[nnodes] \in supported_operations
          /\ ~IsDunder(operation'[nnodes])]_vars

\* A dunder lookup on a node that has a child was just refused while a
\* handler of that node is held.
C12_Witness ==
  /\ lastOp = "AttributeError"
  /\ \E n \in Nodes :
       /\ n < nnodes
       /\ IsDunder(cur_attr[n])
       /\ children[n] /= << >>
       /\ \E h \in handlers : h[1] = n

\* ------------------------------------------------------ partition count
Max(a, b) == IF a > b THEN a ELSE b

\* C13 as stated: with no executor-instance count reported, the partition
\* count is the larger of the configured npartitions and MIN_NPARTITIONS, so
\* never below 2.
C13_FloorOfTwo ==
  (backend /= "none" /\ executor_instances = NoneStr)
    => npartitions = Max(config_npartitions, MIN_NPARTITIONS)

\* C13 amended: with no executor-instance count reported, the partition
\* count is the configured npartitions whenever one is configured (and not
\* 0), and MIN_NPARTITIONS only when none is.
C13_ConfiguredElseTwo ==
  (backend /= "none" /\ executor_instances = NoneStr)
    => npartitions = (IF config_npartitions \in 1 .. MaxNpartitions
                      THEN config_npartitions
                      ELSE MIN_NPARTITIONS)

\* A backend constructed with npartitions 1 configured and no executor
\* instances reported works with one partition.
C13_Witness ==
  /\ backend /= "none"
  /\ executor_instances = NoneStr
  /\ config_npartitions = 1
  /\ npartitions = 1

\* --------------------------------------------------------- map-reduce
\* C16: ProcessAndMerge returns a merged result only when the mapper
\* returned for every range, and then it merges every range; when the
\* mapper or a header or library declaration raises on any range, the call
\* raises and hands back no partial result.
C16_MergedOnlyIfAllReturned ==
  pm_result.status /= "none" =>
    LET bad == \E i \in 1 .. Len(outcomes) : outcomes[i] /= "returns" IN
      /\ bad => pm_result = [status |-> "raised", value |-> {}]
      /\ ~bad => pm_result = [status |-> "returned", value |-> 1 .. Len(outcomes)]

\* A call raised although the mapper had returned for one of its ranges.
C16_Witness ==
  /\ pm_result.status = "raised"
  /\ \E i, j \in 1 .. Len(outcomes) :
       outcomes[i] = "returns" /\ outcomes[j] = "declare_raises"

\* ------------------------------------------------------------ workers
\* The worker threads with a GetValue call in flight.
InFlight == {t \in Threads : wpc[t] \in {"GetValue", "running"}}

\* The worker threads that took a proxy and have not yet reported it done.
Holding == {t \in Threads : wpc[t] \in {"GetValue", "running", "task_done", "dead"}}

\* C14: at most numthreads threads exist and so at most numthreads GetValue
\* calls are in flight, every proxy taken and not yet done is held by a
\* thread of its own, and a proxy leaves the queue only into a thread that
\* is at the top of its loop, its previous GetValue finished.
C14_BoundedInFlight ==
  [][/\ Cardinality(InFlight') <= numthreads'
     /\ nstarted' <= numthreads'
     /\ \A t \in Threads : wpc'[t] /= "unborn" => t <= nstarted'
     /\ mainpc' /= "idle" => unfinished_tasks' = Len(q') + Cardinality(Holding')
     /\ (mainpc /= "idle" /\ q' /= q) =>
          \E t \in Threads :
            /\ wpc[t] = "get" /\ wpc'[t] = "GetValue"
            /\ q' = Tail(q) /\ wproxy'[t] = Head(q)
            /\ \A u \in Threads \ {t} : wpc'[u] = wpc[u] /\ wproxy'[u] = wproxy[u]]_vars

\* Every thread asked for has a GetValue call in flight and a proxy waits.
C14_Witness ==
  /\ numthreads = MaxThreads
  /\ Cardinality(InFlight) = numthreads
  /\ q /= << >>

\* C15: a run that raises ends its own thread only: every other thread
\* stays where it was, an execution in flight on it keeps the action nodes
\* it is to fill, no value and no queue entry is lost, so that execution can
\* still return and store its values.
C15_FailureLeavesSiblings ==
  [][failed' /= failed =>
       \E t \in Threads :
         /\ wpc[t] = "running" /\ wpc'[t] = "dead"
         /\ failed' = failed \cup {wproxy[t]}
         /\ \A u \in Threads \ {t} :
              /\ wpc'[u] = wpc[u]
              /\ wnodes'[u] = wnodes[u]
              /\ wproxy'[u] = wproxy[u]
         /\ value' = value /\ children' = children
         /\ q' = q /\ unfinished_tasks' = unfinished_tasks]_vars

\* One run has failed and the run of another graph, in flight on another
\* thread, has stored the value of its action node.
C15_Witness ==
  /\ failed /= {}
  /\ \E u \in Threads :
       /\ wpc[u] = "task_done"
       /\ value[wproxy[u]] /= NoneVal
       /\ runs[head[wproxy[u]]] = 1
       /\ \A f \in failed : head[f] /= head[wproxy[u]]
       /\ \E t \in Threads \ {u} : wpc[t] = "dead"

\* C17: a value is stored on a node at most once (a stored value is never
\* stored over), and only on Action nodes.
C17_ValueSetOnce ==
  [][\A n \in Nodes :
       /\ value[n] /= NoneVal => value'[n] = value[n]
       /\ value'[n] /= NoneVal => is_action(operation'[n])]_vars

\* --------------------------------------------------- pruning from the head
\* C18: after a pruning from the head every surviving leaf, the head
\* included, has its proxy referenced or has neither a value nor an engine
\* handle stored: none is both unreferenced and already satisfied.
C18_SurvivingLeaves ==
  lastOp \in PruningOps =>
    \A h \in Heads : \A n \in Subtree(children, h) :
      children[n] = << >> =>
        \/ has_user_references[n]
        \/ (value[n] = NoneVal /\ pyroot_node[n] = NoHandle)

\* A pruning dropped some node and left a referenced leaf whose value is
\* stored, next to a head whose own proxy is gone.
C18_Witness ==
  /\ lastOp = "graph_prune"
  /\ detached /= {}
  /\ ~has_user_references[0]
  /\ \E n \in Subtree(children, 0) \ {0} :
       children[n] = << >> /\ has_user_references[n] /\ value[n] /= NoneVal

\* C19 as stated: a pruning from the head never detaches the head and never
\* reports it as a node to detach.
C19_HeadNeverReported ==
  lastOp \in PruningOps =>
    \A h \in Heads : h \notin detached /\ prune_ret = FALSE

\* C19 amended: a pruning from the head never detaches the head, only
\* descendants of it leave the tree; graph_prune on the head returns True
\* exactly when the head is left childless and its own proxy is
\* unreferenced.
C19_HeadRetained ==
  lastOp \in PruningOps =>
    \A h \in Heads :
      /\ h \notin detached
      /\ detached \subseteq Subtree(pre_children, h) \ {h}
      /\ Subtree(children, h) = Subtree(pre_children, h) \ detached
      /\ operation[h] = NoOp /\ head[h] = h
      /\ prune_ret <=> (children[h] = << >> /\ ~has_user_references[h])

\* Every child of an unreferenced head was pruned: the head is still there
\* and graph_prune returned True for it.
C19_Witness ==
  /\ lastOp = "graph_prune"
  /\ prune_ret
  /\ detached /= {}
  /\ 0 \in Heads /\ children[0] = << >>

\* --------------------------------------------------------- serialization
\* What a decoded copy of the subtree of n has to look like.
RECURSIVE Shape(_)
Shape(n) ==
  [children |-> [i \in 1 .. Len(children[n]) |-> Shape(children[n][i])],
   operation |-> IF operation[n] = NoOp THEN NoOperation
                 ELSE [name |-> operation[n], args |-> op_args[n], kwargs |-> op_kwargs[n]]]

\* The keys of a state dictionary and of those of its children.
RECURSIVE StateKeys(_)
StateKeys(state) ==
  DOMAIN state \cup UNION {StateKeys(state.children[i]) : i \in 1 .. Len(state.children)}

\* C20: encoding a node and decoding the record gives a subtree with the
\* same children structure and order and, node by node, the same operation
\* name, args and kwargs; the record holds nothing but children and the
\* three operation fields (no value, no engine handle); the decoded
\* operation is none exactly for a node without operation.
C20_PickleRoundTrip ==
  lastOp = "pickle" =>
    LET d == decoded[1] IN
      /\ d.tree = Shape(d.node)
      /\ StateKeys(d.state) \subseteq
           {"children", "operation_name", "operation_args", "operation_kwargs"}
      /\ (d.tree.operation = NoOperation) <=> (operation[d.node] = NoOp)
      /\ \A i \in 1 .. Len(d.tree.children) :
           d.tree.children[i].operation /= NoOperation

\* The head was round-tripped with two children below it, one booked
\* without and one with arguments.
C20_Witness ==
  /\ lastOp = "pickle"
  /\ decoded[1].node = 0
  /\ Len(decoded[1].tree.children) = 2
  /\ decoded[1].tree.children[1].operation.args = NoArgs
  /\ decoded[1].tree.children[2].operation.kwargs /= NoKwargs

\* ------------------------------------------------------------- ranges
\* The entries of the i-th range.
EntriesOf(i) == {e \in 0 .. (nentries - 1) : ranges[i].start <= e /\ e < ranges[i].end}

\* C21: the ranges built for the map phase are as many as there are
\* partitions, start at 0, end at the number of entries and each starts
\* where the one before ends; their sizes are the quotient or one more, the
\* larger ones first; every entry lies in exactly one range, and a merged
\* result merges every range, so it accounts for every entry exactly once.
C21_RangesCoverOnce ==
  nentries /= NoneVal =>
    LET k == Len(ranges)
        size(i) == ranges[i].end - ranges[i].start
    IN /\ k = npartitions
       /\ ranges[1].start = 0 /\ ranges[k].end = nentries
       /\ \A i \in 1 .. (k - 1) : ranges[i].end = ranges[i + 1].start
       /\ \A i \in 1 .. k : size(i) \in {nentries \div k, nentries \div k + 1}
       /\ \A i \in 1 .. (k - 1) : size(i) >= size(i + 1)
       /\ \A e \in 0 .. (nentries - 1) : Cardinality({i \in 1 .. k : e \in EntriesOf(i)}) = 1
       /\ pm_result.status = "returned" =>
            \A e \in 0 .. (nentries - 1) :
              Cardinality({i \in pm_result.value : e \in EntriesOf(i)}) = 1

\* A merged result over ranges of two different sizes.
C21_Witness ==
  /\ nentries = MaxEntries
  /\ pm_result.status = "returned"
  /\ Len(ranges) >= 3
  /\ ranges[1].end - ranges[1].start = ranges[Len(ranges)].end - ranges[Len(ranges)].start + 1

\* ---------------------------------------------------- RunGraphs, progress
\* C22: a RunGraphs call that has put its proxies on the queue eventually
\* returns, the threads being scheduled fairly and every run ending by
\* returning or by raising.
C22_EventuallyReturns ==
  (mainpc = "start") ~> (mainpc = "returned")

\* C24: every proxy put on the queue is eventually taken from it by a worker
\* thread, which then calls its GetValue, also after runs for other proxies
\* have failed.
C24_EveryProxyTaken ==
  (q /= << >>) ~> (q = << >> /\ \A t \in Threads : wpc[t] /= "GetValue")

\* ------------------------------------------------------- held handlers
\* C23: the node that a call of a handler adds carries the name through
\* which that handler was looked up on its node, whatever lookups were made
\* on the node between the lookup and the call.
C23_ChildNamedByLookup ==
  [][\A n \in Nodes, attr \in AttrNames :
       (CallHandler(n, attr) /\ nnodes' = nnodes + 1) => operation'[nnodes] = attr]_vars

\* ------------------------------------------------------ pruning, frame
\* C25: head.graph_prune() only shrinks children lists: the children list
\* of every node becomes what is left of it once some of its entries are
\* struck out, in the order they had, so no node is added or moved; no node
\* is created and no operation, value, handle or reference flag changes.
C25_PruneOnlyShrinks ==
  [][lastOp' = "graph_prune" =>
       /\ \A n \in Nodes :
            children'[n] = SelectSeq(children[n], LAMBDA c : c \in Kids(children', n))
       /\ nnodes' = nnodes /\ head' = head
       /\ operation' = operation
       /\ value' = value
       /\ pyroot_node' = pyroot_node
       /\ has_user_references' = has_user_references]_vars

\* A pruning struck a child out of a list that still holds two or more, one
\* of them with its value stored.
C25_Witness ==
  /\ lastOp = "graph_prune"
  /\ \E n \in Nodes :
       /\ Len(children[n]) >= 2
       /\ Len(pre_children[n]) > Len(children[n])
       /\ \E i \in 1 .. Len(children[n]) : value[children[n][i]] /= NoneVal

====
